---------------------------- MODULE Spec2Model ----------------------------
(***************************************************************************)
(* Model of src/pipeline/simple_data_ingestion.py: the chunked ingestion   *)
(* pipeline main() -> validate_arguments -> create_engine/connect ->        *)
(* create_table -> ingest_data.                                            *)
(*                                                                         *)
(* The source CSV is a sequence of rows; row i is identified by its index  *)
(* i (1..N) and carries a kind: "ok", or "bad" for a row that the typed,   *)
(* chunked reader of lines 113-119 rejects (a value that cannot be         *)
(* coerced to its DATA_TYPES dtype) but that the untyped single-column     *)
(* pre-scan of line 106 reads without complaint.                           *)
(* The sink is one table: whether it exists, its columns and its rows      *)
(* (row ids in insertion order; 0 is a row left by an earlier run).        *)
(* External failures (network, database) are nondeterministic choices.     *)
(***************************************************************************)
EXTENDS Integers, Sequences, FiniteSets, TLC

\* ------------------------------------------------------------------ bounds
MaxRows == 4
MaxChunk == 3
MaxOld == 2

\* ------------------------------------------------------- program constants
MIN_YEAR == 2009
MAX_YEAR == 2025

Years == {2008, 2009, 2015, 2025, 2026, 2030}
ChunkSizes == (0 - MaxChunk)..MaxChunk
RowKinds == {"ok", "bad"}

\* DATA_TYPES keys and PARSE_DATES: the columns of the yellow-taxi extract.
DATA_TYPES == {"VendorID", "passenger_count", "trip_distance", "RatecodeID",
               "store_and_fwd_flag", "PULocationID", "DOLocationID",
               "payment_type", "fare_amount", "extra", "mta_tax", "tip_amount",
               "tolls_amount", "improvement_surcharge", "total_amount",
               "congestion_surcharge"}
PARSE_DATES == {"tpep_pickup_datetime", "tpep_dropoff_datetime"}
SourceColumns == DATA_TYPES \cup PARSE_DATES

VARIABLES
    args,           \* argparse.Namespace: [year, month, chunk_size, db]
    source,         \* the CSV behind data_url: sequence of row kinds
    old_table,      \* the destination table as it was before the run
    pc,             \* position of main()
    exit_code,      \* process exit status, -1 while running
    engine,         \* "none" | "created"  (create_engine, line 282)
    conns_open,     \* connections checked out of the engine and not yet released
    checkouts,      \* connections checked out of the engine so far
    retrievals,     \* pd.read_csv calls made on the source so far
    table,          \* destination table: [exists, columns, rows]
    sink_log,       \* to_sql calls made so far: [op, cols, rows, ok]
    total_chunks,   \* ingest_data local (line 108)
    pos,            \* df_iterator: rows of the source already consumed
    first_chunk,    \* df_iterator: no chunk has been produced yet
    rows_inserted,  \* ingest_data local (line 124)
    failed,         \* the stage whose failure ended the run, "none" otherwise
    reported,       \* logger.error messages emitted, by origin
    db_url,         \* main() local (line 281), a sequence of characters
    data_url        \* main() local (line 289), a sequence of characters

vars == <<args, source, old_table, pc, exit_code, engine, conns_open, checkouts,
          retrievals, table, sink_log, total_chunks, pos, first_chunk,
          rows_inserted, failed, reported, db_url, data_url>>

\* ----------------------------------------------------------------- helpers
RECURSIVE SeqsUpTo(_, _)
SeqsUpTo(S, n) ==
    IF n = 0 THEN {<<>>}
    ELSE LET shorter == SeqsUpTo(S, n - 1)
         IN  shorter \cup {Append(s, x) : s \in {t \in shorter : Len(t) = n - 1}, x \in S}

NoTable == [exists |-> FALSE, columns |-> {}, rows |-> <<>>]

OldTables ==
    {NoTable} \cup
    {[exists |-> TRUE, columns |-> {"legacy"}, rows |-> [i \in 1..k |-> 0]] : k \in 0..MaxOld}

\* Python's floor division a // b for b # 0.
FloorDiv(a, b) == IF b > 0 THEN a \div b ELSE (0 - a) \div (0 - b)

\* Row ids lo..hi as a sequence (a DataFrame slice in source order).
Rows(lo, hi) == [i \in 1..(hi - lo + 1) |-> lo + i - 1]

\* ------------------------------------------------------------ pure helpers
\* validate_arguments (lines 242-252): which sys.exit it takes, or "return".
validate_arguments_YearOffByOne(a) ==
    IF a.year <= MIN_YEAR \/ a.year > MAX_YEAR THEN "exit_year"
    ELSE IF a.chunk_size <= 0 THEN "exit_chunk_size"
    ELSE "return"

validate_arguments_NoChunkCheck(a) ==
    IF a.year < MIN_YEAR \/ a.year > MAX_YEAR THEN "exit_year"
    ELSE "return"

validate_arguments(a) ==
    IF a.year < MIN_YEAR \/ a.year > MAX_YEAR THEN "exit_year"
    ELSE IF a.chunk_size <= 0 THEN "exit_chunk_size"
    ELSE "return"

\* total_chunks = (total_rows + chunk_size - 1) // chunk_size (line 108).
TotalChunks_Floor(n, c) == FloorDiv(n, c)

TotalChunks(n, c) == FloorDiv(n + c - 1, c)

\* df_iterator (lines 113-119): the chunk after position p ends at p + c,
\* or at the end of the source.
ChunkEnd(p, c, n) == IF p + c < n THEN p + c ELSE n

\* The typed parse of rows lo..hi succeeds when every value coerces to its
\* DATA_TYPES dtype.
ChunkParses_FirstRowOnly(lo, hi) == lo > hi \/ source[lo] = "ok"

ChunkParses(lo, hi) == \A i \in lo..hi : source[i] = "ok"

\* The frame's columns as to_sql writes them: index=True (the default, used
\* by line 92) adds the frame's index as a column; line 133 passes index=False.
FrameColumns(index) == IF index THEN SourceColumns \cup {"index"} ELSE SourceColumns

\* if_exists of the two to_sql calls.
CreateMode_Append == "append"

CreateMode == "replace"

IngestMode_Replace == "replace"

IngestMode == "append"

\* Whether the database accepts the write: an append of rows needs the
\* frame's columns to exist in the table.
ToSqlAccepts(t, mode, cols, rows) ==
    mode = "replace" \/ ~t.exists \/ rows = <<>> \/ cols \subseteq t.columns

\* DataFrame.to_sql(name, con, if_exists=mode): the table afterwards.
ToSql_AppendTwice(t, mode, cols, rows) ==
    IF mode = "replace" \/ ~t.exists
    THEN [exists |-> TRUE, columns |-> cols, rows |-> rows]
    ELSE [t EXCEPT !.rows = @ \o rows \o rows]

ToSql(t, mode, cols, rows) ==
    IF mode = "replace" \/ ~t.exists
    THEN [exists |-> TRUE, columns |-> cols, rows |-> rows]
    ELSE [t EXCEPT !.rows = @ \o rows]

\* The table after a chunk's to_sql raised (line 133): the failed insert is
\* rolled back by its own transaction; ingest_data's handler (lines 141-143)
\* only logs and re-raises.
FailedAppend_Cleanup(t) == [t EXCEPT !.rows = <<>>]

FailedAppend(t) == t

\* rows_inserted += len(chunk) (line 134).
CountRows_ChunkSize(r, chunk) == r + args.chunk_size

CountRows(r, chunk) == r + Len(chunk)

LogEntry(mode, cols, rows, ok) == [op |-> mode, cols |-> cols, rows |-> rows, ok |-> ok]

\* ----------------------------------------------------------------- strings
\* A string is the sequence of its characters.
DigitChars == <<"0", "1", "2", "3", "4", "5", "6", "7", "8", "9">>

\* str(n) for an integer n >= 0: its decimal digits, no padding.
RECURSIVE IntToStr(_)
IntToStr(n) ==
    IF n < 10 THEN <<DigitChars[n + 1]>>
    ELSE IntToStr(n \div 10) \o <<DigitChars[(n % 10) + 1]>>

\* The format spec 0<w>d: zeros on the left up to width w, never truncating.
RECURSIVE ZeroPad(_, _)
ZeroPad(str, w) == IF Len(str) >= w THEN str ELSE ZeroPad(<<"0">> \o str, w)

\* url_prefix (line 75).
url_prefix ==
    <<"h", "t", "t", "p", "s", ":", "/", "/", "g", "i", "t", "h", "u", "b",
      ".", "c", "o", "m", "/", "D", "a", "t", "a", "T", "a", "l", "k", "s",
      "C", "l", "u", "b", "/", "n", "y", "c", "-", "t", "l", "c", "-", "d",
      "a", "t", "a", "/", "r", "e", "l", "e", "a", "s", "e", "s", "/", "d",
      "o", "w", "n", "l", "o", "a", "d", "/", "y", "e", "l", "l", "o", "w",
      "/">>

FilePrefix == <<"y", "e", "l", "l", "o", "w", "_", "t", "r", "i", "p", "d", "a", "t", "a", "_">>

FileSuffix == <<".", "c", "s", "v", ".", "g", "z">>

\* build_data_url (lines 73-76):
\* f"{url_prefix}yellow_tripdata_{year}-{month:02d}.csv.gz".
build_data_url_NoPad(year, month) ==
    url_prefix \o FilePrefix \o IntToStr(year) \o <<"-">> \o IntToStr(month) \o FileSuffix

build_data_url(year, month) ==
    url_prefix \o FilePrefix \o IntToStr(year) \o <<"-">>
        \o ZeroPad(IntToStr(month), 2) \o FileSuffix

Scheme == <<"p", "o", "s", "t", "g", "r", "e", "s", "q", "l", ":", "/", "/">>

\* A URL-quoted copy of a string: "@" becomes "%40", "!" becomes "%21".
RECURSIVE Quoted(_)
Quoted(str) ==
    IF str = <<>> THEN <<>>
    ELSE (IF Head(str) = "@" THEN <<"%", "4", "0">>
          ELSE IF Head(str) = "!" THEN <<"%", "2", "1">>
          ELSE <<Head(str)>>) \o Quoted(Tail(str))

\* build_database_url (lines 65-70):
\* f"postgresql://{user}:{password}@{host}:{port}/{db}".
build_database_url_Quoted(db_config) ==
    Scheme \o db_config.user \o <<":">> \o Quoted(db_config.password)
        \o <<"@">> \o db_config.host \o <<":">> \o db_config.port
        \o <<"/">> \o db_config.db

build_database_url(db_config) ==
    Scheme \o db_config.user \o <<":">> \o db_config.password
        \o <<"@">> \o db_config.host \o <<":">> \o db_config.port
        \o <<"/">> \o db_config.db

\* DEFAULT_CONFIG["database"] with no DB_* environment variable set
\* (lines 34-40).
DefaultDb ==
    [host     |-> <<"l", "o", "c", "a", "l", "h", "o", "s", "t">>,
     user     |-> <<"r", "o", "o", "t">>,
     password |-> <<"r", "o", "o", "t">>,
     db       |-> <<"n", "y", "_", "t", "a", "x", "i">>,
     port     |-> <<"5", "4", "3", "2">>]

\* The months the pipeline runs are drawn from (argparse admits 1..12).
Months == {1, 12}

\* -------------------------------------------------------------------- Init
\* The state when main() has parsed its arguments (line 258).
Init ==
    /\ args \in [year : Years, month : Months, chunk_size : ChunkSizes, db : {DefaultDb}]
    /\ source \in SeqsUpTo(RowKinds, MaxRows)
    /\ old_table \in OldTables
    /\ table = old_table
    /\ pc = "validate"
    /\ exit_code = -1
    /\ engine = "none"
    /\ conns_open = 0
    /\ checkouts = 0
    /\ retrievals = 0
    /\ sink_log = <<>>
    /\ total_chunks = 0
    /\ pos = 0
    /\ first_chunk = FALSE
    /\ rows_inserted = 0
    /\ failed = "none"
    /\ reported = {}
    /\ db_url = <<>>
    /\ data_url = <<>>

\* An exception escapes to main()'s handler, logged by `origin` on the way.
Raise(stage, origin) ==
    /\ pc' = "except"
    /\ failed' = stage
    /\ reported' = reported \cup origin

\* ----------------------------------------------------------------- actions
\* main(), line 264: validate_arguments(args); sys.exit(1) on a bad value.
Validate ==
    /\ pc = "validate"
    /\ LET r == validate_arguments(args)
       IN  IF r = "return"
           THEN /\ pc' = "connect"
                /\ UNCHANGED <<exit_code, failed, reported>>
           ELSE /\ pc' = "exited"
                /\ exit_code' = 1
                /\ failed' = "validation"
                /\ reported' = reported \cup {r}
    /\ UNCHANGED <<args, source, old_table, engine, conns_open, checkouts,
                   retrievals, table, sink_log, total_chunks, pos, first_chunk,
                   rows_inserted>>
    /\ UNCHANGED <<db_url, data_url>>

\* main(), lines 271-285: build db_url, create_engine, then
\* `with engine.connect() as conn`.
Connect ==
    /\ pc = "connect"
    /\ engine' = "created"
    /\ \E ok \in BOOLEAN :
         IF ok
         THEN /\ pc' = "with_conn"
              /\ conns_open' = conns_open + 1
              /\ checkouts' = checkouts + 1
              /\ UNCHANGED <<failed, reported>>
         ELSE /\ Raise("connect", {})
              /\ UNCHANGED <<conns_open, checkouts>>
    /\ UNCHANGED <<args, source, old_table, exit_code, retrievals, table,
                   sink_log, total_chunks, pos, first_chunk, rows_inserted>>
    /\ db_url' = build_database_url(args.db)
    /\ UNCHANGED data_url

\* main(), lines 285-290: the with block only logs; leaving it releases conn;
\* then data_url is built.
ReleaseConn_Leak ==
    /\ pc = "with_conn"
    /\ pc' = "create_table"
    /\ UNCHANGED <<args, source, old_table, exit_code, engine, conns_open, checkouts,
                   retrievals, table, sink_log, total_chunks, pos, first_chunk,
                   rows_inserted, failed, reported>>
    /\ data_url' = build_data_url(args.year, args.month)
    /\ UNCHANGED db_url

ReleaseConn ==
    /\ pc = "with_conn"
    /\ conns_open' = conns_open - 1
    /\ pc' = "create_table"
    /\ UNCHANGED <<args, source, old_table, exit_code, engine, checkouts,
                   retrievals, table, sink_log, total_chunks, pos, first_chunk,
                   rows_inserted, failed, reported>>
    /\ data_url' = build_data_url(args.year, args.month)
    /\ UNCHANGED db_url

\* create_table (lines 79-96), called at line 293: read a zero-row sample,
\* print its schema, write it with if_exists="replace".  Each use of the
\* engine (get_schema, to_sql) checks a connection out and returns it.
CreateTable ==
    /\ pc = "create_table"
    /\ retrievals' = retrievals + 1
    /\ \E read_ok \in BOOLEAN, write_ok \in BOOLEAN :
         IF ~read_ok
         THEN /\ Raise("schema_source", {"create_table"})
              /\ UNCHANGED <<checkouts, table, sink_log>>
         ELSE LET cols == FrameColumns(TRUE)
                  ok   == write_ok /\ ToSqlAccepts(table, CreateMode, cols, <<>>)
              IN  /\ checkouts' = checkouts + 2
                  /\ sink_log' = Append(sink_log, LogEntry(CreateMode, cols, <<>>, ok))
                  /\ IF ok
                     THEN /\ table' = ToSql(table, CreateMode, cols, <<>>)
                          /\ pc' = "ingest_scan"
                          /\ UNCHANGED <<failed, reported>>
                     ELSE /\ table' \in {table, NoTable}
                          /\ Raise("schema_write", {"create_table"})
    /\ UNCHANGED <<args, source, old_table, exit_code, engine, conns_open,
                   total_chunks, pos, first_chunk, rows_inserted>>
    /\ UNCHANGED <<db_url, data_url>>

\* ingest_data, lines 104-110: the pre-scan reads the whole file (one
\* untyped column) and computes total_chunks; a zero chunk_size would raise
\* ZeroDivisionError here.
IngestScan ==
    /\ pc = "ingest_scan"
    /\ retrievals' = retrievals + 1
    /\ \E read_ok \in BOOLEAN :
         IF read_ok /\ args.chunk_size # 0
         THEN /\ total_chunks' = TotalChunks(Len(source), args.chunk_size)
              /\ pc' = "ingest_open"
              /\ UNCHANGED <<failed, reported>>
         ELSE /\ Raise("source_scan", {"ingest_data"})
              /\ UNCHANGED total_chunks
    /\ UNCHANGED <<args, source, old_table, exit_code, engine, conns_open, checkouts,
                   table, sink_log, pos, first_chunk, rows_inserted>>
    /\ UNCHANGED <<db_url, data_url>>

\* ingest_data, lines 113-124: open the chunked reader (chunksize < 1 is
\* rejected by the reader) and reset the row counter.
IngestOpen ==
    /\ pc = "ingest_open"
    /\ retrievals' = retrievals + 1
    /\ \E read_ok \in BOOLEAN :
         IF read_ok /\ args.chunk_size >= 1
         THEN /\ pos' = 0
              /\ first_chunk' = TRUE
              /\ rows_inserted' = 0
              /\ pc' = "ingest_loop"
              /\ UNCHANGED <<failed, reported>>
         ELSE /\ Raise("source_open", {"ingest_data"})
              /\ UNCHANGED <<pos, first_chunk, rows_inserted>>
    /\ UNCHANGED <<args, source, old_table, exit_code, engine, conns_open, checkouts,
                   table, sink_log, total_chunks>>
    /\ UNCHANGED <<db_url, data_url>>

\* The reader has another chunk: rows remain, or nothing was produced yet.
\* pandas' chunked reader answers its first read with an empty frame when the
\* file holds only a header, and raises StopIteration from the second read
\* on, so a source with no data rows yields one empty chunk.
HasNextChunk == pos < Len(source) \/ first_chunk

\* ingest_data, lines 125-135: one iteration of the loop.  Pull the next
\* chunk (parsing it), append it with one to_sql call, add its length to
\* rows_inserted.
IngestChunk ==
    /\ pc = "ingest_loop"
    /\ HasNextChunk
    /\ LET end   == ChunkEnd(pos, args.chunk_size, Len(source))
           chunk == Rows(pos + 1, end)
       IN  IF ~ChunkParses(pos + 1, end)
           THEN /\ Raise("source_chunk", {"ingest_data"})
                /\ UNCHANGED <<checkouts, table, sink_log, pos, first_chunk,
                               rows_inserted>>
           ELSE \E write_ok \in BOOLEAN :
                  LET cols == FrameColumns(FALSE)
                      ok   == write_ok /\ ToSqlAccepts(table, IngestMode, cols, chunk)
                  IN  /\ pos' = end
                      /\ first_chunk' = FALSE
                      /\ checkouts' = checkouts + 1
                      /\ sink_log' = Append(sink_log, LogEntry(IngestMode, cols, chunk, ok))
                      /\ IF ok
                         THEN /\ table' = ToSql(table, IngestMode, cols, chunk)
                              /\ rows_inserted' = CountRows(rows_inserted, chunk)
                              /\ UNCHANGED <<pc, failed, reported>>
                         ELSE /\ table' = FailedAppend(table)
                              /\ Raise("append", {"ingest_data"})
                              /\ UNCHANGED rows_inserted
    /\ UNCHANGED <<args, source, old_table, exit_code, engine, conns_open,
                   retrievals, total_chunks>>
    /\ UNCHANGED <<db_url, data_url>>

\* ingest_data, lines 137-139, and main(), line 298: the reader is
\* exhausted; report the count and return.
IngestComplete ==
    /\ pc = "ingest_loop"
    /\ ~HasNextChunk
    /\ pc' = "return"
    /\ UNCHANGED <<args, source, old_table, exit_code, engine, conns_open, checkouts,
                   retrievals, table, sink_log, total_chunks, pos, first_chunk,
                   rows_inserted, failed, reported>>
    /\ UNCHANGED <<db_url, data_url>>

\* main() returns normally: the interpreter exits with status 0.
MainReturn ==
    /\ pc = "return"
    /\ pc' = "exited"
    /\ exit_code' = 0
    /\ UNCHANGED <<args, source, old_table, engine, conns_open, checkouts,
                   retrievals, table, sink_log, total_chunks, pos, first_chunk,
                   rows_inserted, failed, reported>>
    /\ UNCHANGED <<db_url, data_url>>

\* main(), lines 300-302: except Exception: log, sys.exit(1).
MainExcept_Swallow ==
    /\ pc = "except"
    /\ pc' = "exited"
    /\ exit_code' = 0
    /\ UNCHANGED <<args, source, old_table, engine, conns_open, checkouts,
                   retrievals, table, sink_log, total_chunks, pos, first_chunk,
                   rows_inserted, failed, reported>>
    /\ UNCHANGED <<db_url, data_url>>

MainExcept ==
    /\ pc = "except"
    /\ pc' = "exited"
    /\ exit_code' = 1
    /\ reported' = reported \cup {"pipeline"}
    /\ UNCHANGED <<args, source, old_table, engine, conns_open, checkouts,
                   retrievals, table, sink_log, total_chunks, pos, first_chunk,
                   rows_inserted, failed>>
    /\ UNCHANGED <<db_url, data_url>>

Next ==
    \/ Validate
    \/ Connect
    \/ ReleaseConn
    \/ CreateTable
    \/ IngestScan
    \/ IngestOpen
    \/ IngestChunk
    \/ IngestComplete
    \/ MainReturn
    \/ MainExcept

Spec == Init /\ [][Next]_vars

\* ------------------------------------------- the URL builders on their own
\* Every variable of the pipeline at its initial value, for the
\* specifications that exercise one pure function.
Idle ==
    /\ source = <<>>
    /\ old_table = NoTable
    /\ table = NoTable
    /\ exit_code = -1
    /\ engine = "none"
    /\ conns_open = 0
    /\ checkouts = 0
    /\ retrievals = 0
    /\ sink_log = <<>>
    /\ total_chunks = 0
    /\ pos = 0
    /\ first_chunk = FALSE
    /\ rows_inserted = 0
    /\ failed = "none"
    /\ reported = {}
    /\ db_url = <<>>
    /\ data_url = <<>>

\* build_data_url over every validated (year, month).
DataUrlInit ==
    /\ args \in [year : MIN_YEAR..MAX_YEAR, month : 1..12,
                 chunk_size : {1}, db : {DefaultDb}]
    /\ pc = "build_data_url"
    /\ Idle

BuildDataUrl ==
    /\ pc = "build_data_url"
    /\ data_url' = build_data_url(args.year, args.month)
    /\ pc' = "built_data_url"
    /\ UNCHANGED <<args, source, old_table, exit_code, engine, conns_open, checkouts,
                   retrievals, table, sink_log, total_chunks, pos, first_chunk,
                   rows_inserted, failed, reported, db_url>>

DataUrlSpec == DataUrlInit /\ [][BuildDataUrl]_vars

\* build_database_url over a set of configurations (--db-* overrides).
DbUsers == {<<"r", "o", "o", "t">>, <<"u", "s", "e", "r">>, <<"a", "d", "m", "i", "n">>}
DbPasswords == {<<"r", "o", "o", "t">>, <<"p", "@", "s", "s", "w", "0", "r", "d", "!">>, <<"s", "e", "c", "u", "r", "e", "_", "p", "a", "s", "s">>}
DbHosts == {<<"l", "o", "c", "a", "l", "h", "o", "s", "t">>, <<"d", "b", ".", "p", "r", "o", "d", ".", "e", "x", "a", "m", "p", "l", "e", ".", "c", "o", "m">>}
DbPorts == {<<"5", "4", "3", "2">>, <<"5", "4", "3", "3">>}
DbNames == {<<"n", "y", "_", "t", "a", "x", "i">>, <<"t", "e", "s", "t", "d", "b">>}

DbUrlInit ==
    /\ args \in [year : {2021}, month : {1}, chunk_size : {1},
                 db : [host : DbHosts, user : DbUsers, password : DbPasswords,
                       db : DbNames, port : DbPorts]]
    /\ pc = "build_database_url"
    /\ Idle

BuildDatabaseUrl ==
    /\ pc = "build_database_url"
    /\ db_url' = build_database_url(args.db)
    /\ pc' = "built_database_url"
    /\ UNCHANGED <<args, source, old_table, exit_code, engine, conns_open, checkouts,
                   retrievals, table, sink_log, total_chunks, pos, first_chunk,
                   rows_inserted, failed, reported, data_url>>

DbUrlSpec == DbUrlInit /\ [][BuildDatabaseUrl]_vars

\* ------------------------------------------------------- claim vocabulary
N == Len(source)
C == args.chunk_size

\* The to_sql calls ingest_data has made (everything after create_table's).
Batches == IF sink_log = <<>> THEN <<>> ELSE Tail(sink_log)

RECURSIVE RowsOf(_)
RowsOf(log) ==
    IF log = <<>> THEN <<>>
    ELSE (IF Head(log).ok THEN Head(log).rows ELSE <<>>) \o RowsOf(Tail(log))

RECURSIVE SumLen(_)
SumLen(log) == IF log = <<>> THEN 0 ELSE Len(Head(log).rows) + SumLen(Tail(log))

CeilDiv(n, c) == CHOOSE k \in 0..n : k * c >= n /\ (k - 1) * c < n

Min(a, b) == IF a < b THEN a ELSE b

ValidConfig == args.year \in 2009..2025 /\ args.chunk_size >= 1

\* ingest_data has returned normally.
IngestSucceeded == pc = "return" \/ (pc = "exited" /\ exit_code = 0)

BatchShape ==
    /\ Len(Batches) = CeilDiv(N, C)
    /\ \A i \in 1..Len(Batches) :
         /\ Batches[i].ok
         /\ Len(Batches[i].rows) =
              IF i < Len(Batches) THEN C
              ELSE IF N % C = 0 THEN C ELSE N % C
    /\ SumLen(Batches) = N
    /\ Len(Batches) = total_chunks

\* ------------------------------------------------------------------ claims
\* C1 as stated: for every N and C >= 1 a successful ingest_data has appended
\* exactly ceil(N/C) batches, all of C rows but the last (N mod C, or C), the
\* sizes sum to N, and the count equals total_chunks.
C1_BatchCountAsStated == IngestSucceeded => BatchShape

\* C1 amended: the above holds for every source of N >= 1 rows; for a source
\* with no data rows the loop runs once, on one empty batch, while
\* total_chunks is 0.
C1_BatchCount ==
    IngestSucceeded =>
        IF N >= 1 THEN BatchShape
        ELSE /\ Len(Batches) = 1
             /\ Batches[1].ok /\ Batches[1].rows = <<>>
             /\ total_chunks = 0

C1_Witness == IngestSucceeded /\ N = 4 /\ C = 3 /\ Len(Batches) = 2

\* C2: once this run has created the table, at every point of ingest_data the
\* table holds exactly a prefix of the source rows in source order, and the
\* i-th to_sql call of the loop carried exactly the i-th chunk of the source:
\* nothing skipped, reordered, duplicated or retried.
C2_PrefixInOrder ==
    (sink_log # <<>> /\ sink_log[1].ok) =>
        /\ Len(table.rows) <= N
        /\ table.rows = Rows(1, Len(table.rows))
        /\ table.rows = RowsOf(Batches)
        /\ \A i \in 1..Len(Batches) :
             Batches[i].rows = Rows((i - 1) * C + 1, Min(i * C, N))

C2_Witness ==
    /\ pc = "ingest_loop"
    /\ Len(Batches) = 2
    /\ pos < N
    /\ table.rows = <<1, 2>>

\* C3: the first sink operation of a run is create_table's replace; every
\* later one is an append onto the table that replace created; no append
\* precedes the creation and no replace follows it.
C3_CreateThenAppendOnly ==
    \A i \in 1..Len(sink_log) :
        /\ (i = 1) => sink_log[i].op = "replace"
        /\ (i > 1) => /\ sink_log[i].op = "append"
                      /\ sink_log[1].ok
                      /\ table.exists

C3_Witness == Len(sink_log) >= 3 /\ sink_log[3].ok

\* C4: the process exits 0 exactly when no stage failed; then validation
\* passed, the engine was created, the table was replaced and every source
\* row was appended.  Every failure is reported and exits 1.
AllStagesSucceeded ==
    /\ ValidConfig
    /\ engine = "created"
    /\ sink_log # <<>>
    /\ \A i \in 1..Len(sink_log) : sink_log[i].ok
    /\ table.exists
    /\ table.rows = Rows(1, N)

C5_AppendFailure ==
    failed = "append" =>
        LET k == Len(Batches)
        IN  /\ k >= 1
            /\ ~Batches[k].ok
            /\ \A i \in 1..(k - 1) : Batches[i].ok
            /\ table.rows = Rows(1, (k - 1) * C)
            /\ pc \in {"except", "exited"}
            /\ pc = "exited" => exit_code = 1

C5_Witness == failed = "append" /\ pc = "exited" /\ Len(Batches) = 3

\* C6 as stated: whenever ingest_data ends with a retrieval/parse failure of
\* the source, it has appended no row.
SourceFailures == {"source_scan", "source_open", "source_chunk"}

C6_NoRowsAsStated ==
    failed \in SourceFailures => (table.rows = <<>> /\ Batches = <<>>)

\* C6 amended: a failure of the pre-scan or of opening the chunked reader
\* happens before any append; a parse failure of a later chunk happens after
\* all chunks that precede the first unparsable row have been appended, and
\* those rows stay in the table.
FirstBad == CHOOSE i \in 1..N : source[i] = "bad" /\ \A j \in 1..(i - 1) : source[j] = "ok"

C6_SourceFailure ==
    /\ failed \in {"source_scan", "source_open"} =>
         (table.rows = <<>> /\ Batches = <<>>)
    /\ failed = "source_chunk" =>
         /\ \E i \in 1..N : source[i] = "bad"
         /\ Len(Batches) = (FirstBad - 1) \div C
         /\ \A i \in 1..Len(Batches) : Batches[i].ok
         /\ table.rows = Rows(1, C * ((FirstBad - 1) \div C))

C6_Witness == failed = "source_chunk" /\ pc = "exited" /\ Len(table.rows) >= 2

\* C7: validate_arguments returns without exiting exactly when
\* 2009 <= year <= 2025 and chunk_size >= 1; otherwise the process ends with
\* status 1.
C7_ValidateIff ==
    pc # "validate" =>
        /\ (failed # "validation") <=> (args.year \in 2009..2025 /\ args.chunk_size >= 1)
        /\ (failed = "validation") => (pc = "exited" /\ exit_code = 1)

C7_Witness == pc = "connect" /\ args.year = 2009 /\ args.chunk_size = 1

\* C8: a run with an out-of-range year or a chunk size <= 0 never creates the
\* engine, opens a connection, reads the source or touches the table.
C8_NoIOOnInvalidConfig ==
    ~ValidConfig =>
        /\ engine = "none"
        /\ checkouts = 0 /\ conns_open = 0
        /\ retrievals = 0
        /\ sink_log = <<>>
        /\ table = old_table
        /\ pc = "exited" => exit_code = 1

C8_Witness == pc = "exited" /\ args.year = 2015 /\ args.chunk_size = 0

\* C9 as stated: one connection is acquired at the start, held while the
\* schema is created and the batches are appended, and released at exit.
C9_SingleHeldConnectionAsStated ==
    /\ checkouts <= 1
    /\ pc \in {"create_table", "ingest_scan", "ingest_open", "ingest_loop"} => conns_open = 1
    /\ pc = "exited" => conns_open = 0

\* C9 amended: the engine is created once and shared by create_table and every
\* append; the connection opened at the start only tests connectivity and is
\* released before create_table; every sink call checks out its own
\* connection and returns it, so outside the test block, and at every exit, no
\* checked-out connection is open.
C9_ConnectionsReleased ==
    /\ sink_log # <<>> => engine = "created"
    /\ pc = "with_conn" => (conns_open = 1 /\ checkouts = 1)
    /\ pc # "with_conn" => conns_open = 0
    /\ Len(sink_log) >= 1 => checkouts = 1 + 2 + Len(Batches)

C9_Witness == pc = "exited" /\ checkouts >= 5 /\ failed = "none"

\* C10: when create_table has returned successfully the table exists and is
\* empty, whatever it held before.
C10_EmptyAfterCreate ==
    pc = "ingest_scan" => (table.exists /\ table.rows = <<>>)

C10_Witness == pc = "ingest_scan" /\ old_table.exists /\ Len(old_table.rows) >= 1

\* C11: while ingest_data runs without failure, after each batch rows_inserted
\* equals the number of rows this run has appended to the table (the sum of
\* the batch sizes so far), and the count reported on success equals N.
C11_RowCounter ==
    ((pc \in {"ingest_loop", "return"} \/ IngestSucceeded) /\ failed = "none") =>
        /\ rows_inserted = SumLen(Batches)
        /\ rows_inserted = Len(table.rows)
        /\ IngestSucceeded => rows_inserted = N

C11_Witness == pc = "exited" /\ exit_code = 0 /\ rows_inserted = 3 /\ C = 2

\* C12: for every year in 2009..2025 and month in 1..12, build_data_url
\* returns the release prefix, then yellow_tripdata_, the four digits of the
\* year, a dash, the month as exactly two digits (zero-padded), then .csv.gz.
C12_DataUrl ==
    pc = "built_data_url" =>
        LET y == args.year
            m == args.month
            d(k) == DigitChars[k + 1]
        IN  /\ data_url = url_prefix \o FilePrefix
                 \o <<d(y \div 1000), d((y \div 100) % 10), d((y \div 10) % 10), d(y % 10)>>
                 \o <<"-", d(m \div 10), d(m % 10)>> \o FileSuffix
            /\ Len(data_url) = Len(url_prefix) + 16 + 4 + 1 + 2 + 7

C12_Witness ==
    /\ pc = "built_data_url"
    /\ args.year = 2021 /\ args.month = 1
    /\ SubSeq(data_url, Len(data_url) - 13, Len(data_url)) = <<"2", "0", "2", "1", "-", "0", "1", ".", "c", "s", "v", ".", "g", "z">>

\* C13: build_database_url returns postgresql://, the user, a colon, the
\* password, an at sign, the host, a colon, the port, a slash and the database
\* name, each field character for character as given.
C13_DatabaseUrl ==
    pc = "built_database_url" =>
        LET c  == args.db
            p1 == Len(Scheme)
            p2 == p1 + Len(c.user) + 1
            p3 == p2 + Len(c.password) + 1
            p4 == p3 + Len(c.host) + 1
            p5 == p4 + Len(c.port) + 1
        IN  /\ Len(db_url) = p5 + Len(c.db)
            /\ SubSeq(db_url, 1, p1) = <<"p", "o", "s", "t", "g", "r", "e", "s", "q", "l", ":", "/", "/">>
            /\ SubSeq(db_url, p1 + 1, p2 - 1) = c.user
            /\ db_url[p2] = ":"
            /\ SubSeq(db_url, p2 + 1, p3 - 1) = c.password
            /\ db_url[p3] = "@"
            /\ SubSeq(db_url, p3 + 1, p4 - 1) = c.host
            /\ db_url[p4] = ":"
            /\ SubSeq(db_url, p4 + 1, p5 - 1) = c.port
            /\ db_url[p5] = "/"
            /\ SubSeq(db_url, p5 + 1, Len(db_url)) = c.db

C13_Witness ==
    /\ pc = "built_database_url"
    /\ args.db.password = <<"p", "@", "s", "s", "w", "0", "r", "d", "!">>
    /\ args.db.user = <<"u", "s", "e", "r">>
    /\ SubSeq(db_url, 1, 28) = 
        <<"p", "o", "s", "t", "g", "r", "e", "s", "q", "l", ":", "/", "/", "u", "s", "e", "r", ":", "p", "@", "s", "s", "w", "0", "r", "d", "!", "@">>

\* C14: once create_table has created the table, its column set is exactly
\* the column set of the zero-row sample, and every batch ingest_data appends
\* has exactly the table's columns: neither has a column the other lacks.
C14_SameColumns ==
    (sink_log # <<>> /\ sink_log[1].ok) =>
        /\ table.columns = SourceColumns
        /\ \A i \in 1..Len(Batches) : Batches[i].cols = table.columns

====
